---- MODULE Spec2Model ----
(***************************************************************************)
(* A model of rasa/core/migrate.py: the migration of a 2.0 domain (one     *)
(* file, or a directory of files) to the 3.0 format.                       *)
(*                                                                         *)
(* Python values are modelled as follows.                                  *)
(*   - an ordered dict whose order matters (a document, the slots table,   *)
(*     the forms table, a form's declarations) is a sequence of            *)
(*     [key, val] records with distinct keys;                              *)
(*   - a dict whose order no operation reads (a mapping rule, a            *)
(*     condition, a slot's properties) is a function on its keys;          *)
(*   - a list is a sequence;                                               *)
(*   - a path is the sequence of its components, a filesystem a function   *)
(*     from paths to nodes.                                                *)
(***************************************************************************)
EXTENDS Integers, Sequences, FiniteSets, TLC

VARIABLES
    pc,               \* position of migrate_domain_format
    fs,               \* the filesystem
    fs0,              \* the filesystem before the run (history)
    domain_path,      \* argument of migrate_domain_format
    out_path,         \* argument of migrate_domain_format
    created_out_dir,  \* local of migrate_domain_format
    domain_files,     \* local of _migrate_domain_files
    idx,              \* position of the loop over the files
    acc,              \* slots, forms, entities collected by _migrate_domain_files
    original_domain,  \* local of migrate_domain_format
    new_tables,       \* new_forms and new_slots
    err,              \* the exception in flight, "" when none
    raised_at,        \* the filesystem when the exception was raised (history)
    call,             \* input of the transformation under check
    ret               \* its result

vars == <<pc, fs, fs0, domain_path, out_path, created_out_dir, domain_files,
          idx, acc, original_domain, new_tables, err, raised_at, call, ret>>

-----------------------------------------------------------------------------
(* Python dicts and lists *)

\* key in d
Has(d, k) == k \in DOMAIN d

\* d.get(k, default)
Get(d, k, default) == IF k \in DOMAIN d THEN d[k] ELSE default

\* d.update({k: v})
Update(d, k, v) == [x \in (DOMAIN d) \cup {k} |-> IF x = k THEN v ELSE d[x]]

\* d after d.pop(k, ...) or del d[k]
Without(d, k) == [x \in (DOMAIN d) \ {k} |-> d[x]]

\* {**a, **b}
Merged(a, b) == [x \in (DOMAIN a) \cup (DOMAIN b) |-> IF x \in DOMAIN b THEN b[x] ELSE a[x]]

\* x in list
InList(x, list) == \E i \in 1..Len(list) : list[i] = x

\* the list as it was: the call of remove left out
nothing_removed(list, x) == list

\* list after list.remove(x): the first element equal to x is removed
ListRemove(list, x) ==
    LET i == CHOOSE j \in 1..Len(list) :
                 list[j] = x /\ \A k \in 1..(j - 1) : list[k] # x
    IN  SubSeq(list, 1, i - 1) \o SubSeq(list, i + 1, Len(list))

\* ordered dict: keys in order
OKeys(od) == [i \in 1..Len(od) |-> od[i].key]

OHas(od, k) == \E i \in 1..Len(od) : od[i].key = k

OGet(od, k, default) ==
    IF OHas(od, k) THEN od[CHOOSE i \in 1..Len(od) : od[i].key = k].val ELSE default

\* od[k] = v: an existing key keeps its position, a new key goes last
OPut(od, k, v) ==
    IF OHas(od, k)
    THEN [i \in 1..Len(od) |-> IF od[i].key = k THEN [key |-> k, val |-> v] ELSE od[i]]
    ELSE Append(od, [key |-> k, val |-> v])

\* od after od.pop(k, ...)
ODel(od, k) == SelectSeq(od, LAMBDA e : e.key # k)

\* od.update(other)
RECURSIVE OUpdate(_, _)
OUpdate(od, other) ==
    IF other = <<>> THEN od
    ELSE OUpdate(OPut(od, Head(other).key, Head(other).val), Tail(other))

-----------------------------------------------------------------------------
(* Names of rasa.shared *)

REQUIRED_SLOTS_KEY == "required_slots"
IGNORED_INTENTS == "ignored_intents"
ACTIVE_LOOP == "active_loop"
REQUESTED_SLOT == "requested_slot"
KEY_ENTITIES == "entities"
KEY_SLOTS == "slots"
KEY_FORMS == "forms"
FROM_ENTITY == "from_entity"
FROM_TRIGGER_INTENT == "from_trigger_intent"
TargetVersion == "\"3.0\""

-----------------------------------------------------------------------------
(* The mapping merger *)

\* FROM_TRIGGER_INTENT left out of the list of line 38
only_from_entity_is_bare(condition, mapping, slot_name) ==
    IF Get(mapping, "type", "None") # FROM_ENTITY
    THEN Merged(condition, [x \in {REQUESTED_SLOT} |-> slot_name])
    ELSE condition

_get_updated_mapping_condition(condition, mapping, slot_name) ==
    IF Get(mapping, "type", "None") \notin {FROM_ENTITY, FROM_TRIGGER_INTENT}
    THEN Merged(condition, [x \in {REQUESTED_SLOT} |-> slot_name])
    ELSE condition

\* The first loop of _get_updated_or_new_mappings, from position i on:
\* new_mappings as it stands and updated_mappings so far.
RECURSIVE ExistingLoop(_, _, _, _, _, _)
ExistingLoop(existing_mappings, i, new_mappings, condition, slot_name, updated_mappings) ==
    IF i > Len(existing_mappings)
    THEN [new_mappings |-> new_mappings, updated_mappings |-> updated_mappings]
    ELSE LET mapping_copy == existing_mappings[i]
             conditions == Get(existing_mappings[i], "conditions", <<>>)
             existing_mapping == Without(existing_mappings[i], "conditions")
         IN  IF InList(existing_mapping, new_mappings)
             THEN ExistingLoop(existing_mappings, i + 1,
                      ListRemove(new_mappings, existing_mapping), condition, slot_name,
                      Append(updated_mappings,
                          Update(existing_mapping, "conditions",
                              Append(conditions,
                                  _get_updated_mapping_condition(
                                      condition, existing_mapping, slot_name)))))
             ELSE ExistingLoop(existing_mappings, i + 1, new_mappings, condition,
                      slot_name, Append(updated_mappings, mapping_copy))

\* The second loop of _get_updated_or_new_mappings.
NewLoop(new_mappings, condition, slot_name) ==
    [i \in 1..Len(new_mappings) |->
        Update(new_mappings[i], "conditions",
            <<_get_updated_mapping_condition(condition, new_mappings[i], slot_name)>>)]

\* the form's remaining rules put before the slot's rules
new_rules_first(existing_mappings, new_mappings, condition, slot_name) ==
    LET first == ExistingLoop(existing_mappings, 1, new_mappings, condition,
                     slot_name, <<>>)
    IN  NewLoop(first.new_mappings, condition, slot_name) \o first.updated_mappings

_get_updated_or_new_mappings(existing_mappings, new_mappings, condition, slot_name) ==
    LET first == ExistingLoop(existing_mappings, 1, new_mappings, condition,
                     slot_name, <<>>)
    IN  first.updated_mappings \o NewLoop(first.new_mappings, condition, slot_name)

-----------------------------------------------------------------------------
(* The form-slot restructurer *)

\* The loop over one form's declarations, from position i on.
RECURSIVE SlotLoop(_, _, _, _, _)
SlotLoop(form_name, form_data, i, updated_slots, required_slots) ==
    IF i > Len(form_data)
    THEN [updated_slots |-> updated_slots, required_slots |-> required_slots]
    ELSE LET slot_name == form_data[i].key
             mappings == form_data[i].val
             condition == [x \in {ACTIVE_LOOP} |-> form_name]
             slot_properties == OGet(updated_slots, slot_name, <<>>)
             existing_mappings == Get(slot_properties, "mappings", <<>>)
             updated_mappings == _get_updated_or_new_mappings(
                                     existing_mappings, mappings, condition, slot_name)
         IN  SlotLoop(form_name, form_data, i + 1,
                 OPut(updated_slots, slot_name,
                     Update(slot_properties, "mappings", updated_mappings)),
                 Append(required_slots, slot_name))

\* The loop over the forms, from position i on.
RECURSIVE FormLoop(_, _, _, _)
FormLoop(forms, i, updated_slots, new_forms) ==
    IF i > Len(forms)
    THEN [new_forms |-> new_forms, updated_slots |-> updated_slots]
    ELSE LET form_name == forms[i].key
             ignored_intents == OGet(forms[i].val, IGNORED_INTENTS, <<>>)
             popped == ODel(forms[i].val, IGNORED_INTENTS)
             form_data == IF OHas(popped, REQUIRED_SLOTS_KEY)
                          THEN OGet(popped, REQUIRED_SLOTS_KEY, <<>>)
                          ELSE popped
             done == SlotLoop(form_name, form_data, 1, updated_slots, <<>>)
         IN  FormLoop(forms, i + 1, done.updated_slots,
                 OPut(new_forms, form_name,
                     [ignored_intents |-> ignored_intents,
                      required_slots |-> done.required_slots]))

_migrate_form_slots(domain) ==
    FormLoop(OGet(domain, KEY_FORMS, <<>>), 1, OGet(domain, KEY_SLOTS, <<>>), <<>>)

-----------------------------------------------------------------------------
(* The implicit-fill normalizer *)

_migrate_auto_fill(slot_name, properties, entities) ==
    LET from_entity_mapping == [type |-> FROM_ENTITY, entity |-> slot_name]
        mappings == Get(properties, "mappings", <<>>)
        filled == IF /\ InList(slot_name, entities)
                     /\ Get(properties, "auto_fill", TRUE) = TRUE
                     /\ ~InList(from_entity_mapping, mappings)
                  THEN Update(properties, "mappings", Append(mappings, from_entity_mapping))
                  ELSE properties
    IN  Without(filled, "auto_fill")

\* the custom mapping only for a slot without the key "mappings"
custom_only_without_key(slot_name, properties) ==
    IF ~Has(properties, "mappings")
    THEN Update(properties, "mappings", <<[type |-> "custom"]>>)
    ELSE properties

_migrate_custom_slots(slot_name, properties) ==
    IF Get(properties, "mappings", <<>>) = <<>>
    THEN Update(properties, "mappings", <<[type |-> "custom"]>>)
    ELSE properties

\* only the slots a legacy slots table declared (they have a type) are kept
declared_slots_only(domain, slots) ==
    LET entities == OGet(domain, KEY_ENTITIES, <<>>)
        declared == SelectSeq(slots, LAMBDA e : Has(e.val, "type"))
    IN  [i \in 1..Len(declared) |->
            [key |-> declared[i].key,
             val |-> _migrate_custom_slots(declared[i].key,
                         _migrate_auto_fill(declared[i].key, declared[i].val, entities))]]

_migrate_auto_fill_and_custom_slots(domain, slots) ==
    LET entities == OGet(domain, KEY_ENTITIES, <<>>)
    IN  [i \in 1..Len(slots) |->
            [key |-> slots[i].key,
             val |-> _migrate_custom_slots(slots[i].key,
                         _migrate_auto_fill(slots[i].key, slots[i].val, entities))]]

-----------------------------------------------------------------------------
(* The document assembler *)

\* the version key is set as line 228 sets it: added when the original lacks it
assemble_with_version_key(original_content, new_forms, new_slots) ==
    OPut([i \in 1..Len(original_content) |->
             [key |-> original_content[i].key,
              val |-> IF original_content[i].key = KEY_SLOTS THEN new_slots
                      ELSE IF original_content[i].key = KEY_FORMS THEN new_forms
                      ELSE original_content[i].val]],
         "version", TargetVersion)

\* the new slot table is put into the document even when the original has no
\* slots key
assemble_adding_slots(original_content, new_forms, new_slots) ==
    OPut([i \in 1..Len(original_content) |->
             [key |-> original_content[i].key,
              val |-> IF original_content[i].key = KEY_FORMS THEN new_forms
                      ELSE IF original_content[i].key = "version" THEN TargetVersion
                      ELSE original_content[i].val]],
         KEY_SLOTS, new_slots)

\* _assemble_new_domain, on the content read from domain_file
_assemble_new_domain(original_content, new_forms, new_slots) ==
    [i \in 1..Len(original_content) |->
        [key |-> original_content[i].key,
         val |-> IF original_content[i].key = KEY_SLOTS THEN new_slots
                 ELSE IF original_content[i].key = KEY_FORMS THEN new_forms
                 ELSE IF original_content[i].key = "version" THEN TargetVersion
                 ELSE original_content[i].val]]

-----------------------------------------------------------------------------
(* The filesystem: pathlib, shutil and the yaml reader and writer *)

Parent(p) == SubSeq(p, 1, Len(p) - 1)

IsUnder(q, p) == Len(q) >= Len(p) /\ SubSeq(q, 1, Len(p)) = p

Dir == [kind |-> "dir", complete |-> TRUE, content |-> <<>>]

File(content) == [kind |-> "file", complete |-> TRUE, content |-> content]

\* what a write that fails half way leaves behind
PartialFile == [kind |-> "file", complete |-> FALSE, content |-> <<>>]

exists(f, p) == p \in DOMAIN f

is_dir(f, p) == p \in DOMAIN f /\ f[p].kind = "dir"

is_file(f, p) == p \in DOMAIN f /\ f[p].kind = "file"

\* every name a directory entry of the model may have, in the order iterdir
\* lists them
EntryNames == <<"a.yml", "b.yml", "c.yml", "d.yml", "domain", "domain.yml",
                "original_domain", "original_domain.yml", "new_domain",
                "new_domain.yml", "out", "Q", "sub", "x.txt">>

iterdir(f, p) ==
    LET names == SelectSeq(EntryNames, LAMBDA n : Append(p, n) \in DOMAIN f)
    IN  [i \in 1..Len(names) |-> Append(p, names[i])]

\* f with path p bound to node
Bind(f, p, node) == [q \in (DOMAIN f) \cup {p} |-> IF q = p THEN node ELSE f[q]]

\* f without the paths in gone
Unbind(f, gone) == [q \in (DOMAIN f) \ gone |-> f[q]]

\* Path.mkdir(parents=True) and Path.mkdir(): the error raised, "" when none
mkdir_error(f, p, parents) ==
    IF exists(f, p) THEN "FileExistsError"
    ELSE IF \E k \in 1..(Len(p) - 1) : is_file(f, SubSeq(p, 1, k)) THEN "NotADirectoryError"
    ELSE IF ~parents /\ ~is_dir(f, Parent(p)) THEN "FileNotFoundError"
    ELSE ""

mkdir(f, p) ==
    LET made == {SubSeq(p, 1, k) : k \in 1..Len(p)} \ DOMAIN f
    IN  [q \in (DOMAIN f) \cup made |-> IF q \in made THEN Dir ELSE f[q]]

\* Path.rmdir in the place of shutil.rmtree: a directory that holds entries stays
rmtree_only_if_empty(f, p) ==
    IF \E q \in DOMAIN f : IsUnder(q, p) /\ q # p THEN f ELSE Unbind(f, {p})

\* shutil.rmtree
rmtree(f, p) == Unbind(f, {q \in DOMAIN f : IsUnder(q, p)})

\* write_yaml opens the target for writing: the error raised, "" when none
open_error(f, p) ==
    IF is_dir(f, p) THEN "IsADirectoryError"
    ELSE IF is_file(f, Parent(p)) THEN "NotADirectoryError"
    ELSE IF ~is_dir(f, Parent(p)) THEN "FileNotFoundError"
    ELSE ""

\* read_yaml_file
read_yaml_file(f, p) == f[p].content

\* Domain.is_domain_file: a yaml file holding at least one key of a domain
DomainKeys == {"version", "intents", "entities", "slots", "forms", "responses", "actions"}

is_domain_file(f, p) ==
    /\ is_file(f, p)
    /\ f[p].complete
    /\ \E i \in 1..Len(f[p].content) : f[p].content[i].key \in DomainKeys

-----------------------------------------------------------------------------
(* The inputs of a run *)

MaxFiles == 2

E(k, v) == [key |-> k, val |-> v]

PoolSlots == <<E("s1", [type |-> "text"])>>

PoolForms ==
    <<E("f1", <<E("s1", <<[type |-> FROM_ENTITY, entity |-> "s1"]>>),
                E("s2", <<[type |-> "from_text"]>>)>>)>>

DocPlain == <<E("version", "2.0"), E("intents", <<"greet">>)>>

DocSlots == <<E("version", "2.0"), E(KEY_ENTITIES, <<"s1">>), E(KEY_SLOTS, PoolSlots)>>

DocForms == <<E(KEY_FORMS, PoolForms), E("responses", <<"utter_ask">>)>>

DocBoth ==
    <<E("version", "2.0"),
      E(KEY_SLOTS, <<E("s2", [type |-> "text", auto_fill |-> FALSE])>>),
      E(KEY_FORMS,
        <<E("f2", <<E(IGNORED_INTENTS, <<"chitchat">>),
                    E(REQUIRED_SLOTS_KEY, <<E("s2", <<[type |-> "from_text"]>>)>>)>>)>>)>>

DocEmptySlots == <<E(KEY_SLOTS, <<>>), E("intents", <<"bye">>)>>

DocMigrated == <<E("version", "3.0"), E("intents", <<"greet">>)>>

DocNotDomain == <<E("nlu", <<"hello">>)>>

\* a document without a version key and without sections
DocBare == <<E("responses", <<"utter_bye">>), E("intents", <<"bye">>)>>

DocPool == <<DocPlain, DocSlots, DocForms, DocBoth, DocEmptySlots, DocMigrated,
             DocNotDomain, DocBare>>

FileNames == <<"a.yml", "b.yml", "c.yml", "d.yml">>

ParentDir == <<"P">>

\* what may be at a path before the run
PreStates == {"none", "file", "emptydir", "dir_with_file", "dir_with_subdir"}

\* f with path p in state pre, when p is free and its parent is a directory
Populate(f, p, pre) ==
    IF exists(f, p) \/ ~is_dir(f, Parent(p)) \/ pre = "none" THEN f
    ELSE IF pre = "file" THEN Bind(f, p, File(DocPlain))
    ELSE IF pre = "emptydir" THEN Bind(f, p, Dir)
    ELSE IF pre = "dir_with_file"
         THEN Bind(Bind(f, p, Dir), Append(p, "x.txt"), File(DocNotDomain))
    ELSE Bind(Bind(f, p, Dir), Append(p, "sub"), Dir)

FileInput(d) ==
    [q \in {ParentDir, <<"P", "domain.yml">>} |->
        IF q = ParentDir THEN Dir ELSE File(DocPool[d])]

DirInput(docs) ==
    [q \in {ParentDir, <<"P", "domain">>}
            \cup {<<"P", "domain", FileNames[i]>> : i \in 1..Len(docs)} |->
        IF Len(q) < 3 THEN Dir
        ELSE File(DocPool[docs[CHOOSE i \in 1..Len(docs) : FileNames[i] = q[3]]])]

FileOutPaths ==
    {<<"P", "new_domain.yml">>, <<"P", "new_domain">>, <<"P", "Q", "out.yml">>,
     <<"P", "original_domain.yml">>, <<"P", "domain.yml">>, ParentDir}

DirOutPaths ==
    {<<"P", "new_domain">>, <<"P", "Q", "out">>, <<"P", "original_domain">>,
     <<"P", "domain">>, <<"P", "domain", "out">>, ParentDir}

-----------------------------------------------------------------------------
(* migrate_domain_format *)

NoErr == [kind |-> "", why |-> ""]

NoAcc == [slots |-> <<>>, forms |-> <<>>, entities |-> <<>>, original_content |-> <<>>]

NoTables == [new_forms |-> <<>>, new_slots |-> <<>>]

migrate_file_only == is_file(fs0, domain_path)

backup_location ==
    Append(Parent(domain_path),
           IF migrate_file_only THEN "original_domain.yml" ELSE "original_domain")

\* the domain files of a directory, in iterdir's order
DomainFilesOf(f, p) == SelectSeq(iterdir(f, p), LAMBDA q : is_domain_file(f, q))

original_files(f) ==
    IF is_dir(f, domain_path) THEN DomainFilesOf(f, domain_path) ELSE <<domain_path>>

migrated_files(f) ==
    SelectSeq(original_files(f),
              LAMBDA q : OGet(read_yaml_file(f, q), "version", "None") = "3.0")

Init ==
    /\ \E file_only \in BOOLEAN, out \in FileOutPaths \cup DirOutPaths,
          out_pre \in PreStates, backup_pre \in {"none", "file", "dir_with_file"},
          n \in 0..MaxFiles :
          \E docs \in [1..n -> 1..Len(DocPool)] :
              /\ file_only => n = 1 /\ out \in FileOutPaths
              /\ ~file_only => out \in DirOutPaths
              /\ domain_path = IF file_only THEN <<"P", "domain.yml">>
                               ELSE <<"P", "domain">>
              /\ out_path = out
              /\ fs0 = Populate(
                           Populate(IF file_only THEN FileInput(docs[1])
                                    ELSE DirInput(docs),
                                    out, out_pre),
                           Append(ParentDir,
                                  IF file_only THEN "original_domain.yml"
                                  ELSE "original_domain"),
                           backup_pre)
    /\ fs = fs0
    /\ pc = "start"
    /\ created_out_dir = FALSE
    /\ domain_files = <<>>
    /\ idx = 0
    /\ acc = NoAcc
    /\ original_domain = <<>>
    /\ new_tables = NoTables
    /\ err = NoErr
    /\ raised_at = <<>>
    /\ call = <<>>
    /\ ret = <<>>

\* an exception raised before the try statement reaches the caller as it is
Reject(kind, why) ==
    /\ pc' = "rejected"
    /\ err' = [kind |-> kind, why |-> why]
    /\ raised_at' = fs
    /\ UNCHANGED <<fs, fs0, domain_path, out_path, created_out_dir, domain_files,
                   idx, acc, original_domain, new_tables, call, ret>>

\* lines 268-327: the checks made before the try statement
Preflight ==
    /\ pc = "start"
    /\ IF exists(fs, backup_location)
       THEN \* line 281: Path has no method isdir
            Reject("AttributeError", "backup_exists")
       ELSE IF ~migrate_file_only /\ is_dir(fs, out_path)
               /\ iterdir(fs, out_path) # <<>>
       THEN Reject("RasaException", "out_dir_not_empty")
       ELSE IF migrate_file_only /\ is_file(fs, out_path)
       THEN Reject("RasaException", "out_file_exists")
       ELSE IF migrated_files(fs) # <<>>
       THEN Reject("RasaException", "already_migrated")
       ELSE /\ pc' = "try"
            /\ UNCHANGED <<fs, fs0, domain_path, out_path, created_out_dir,
                           domain_files, idx, acc, original_domain, new_tables, err,
                           raised_at, call, ret>>

\* an exception raised inside the try statement, with the filesystem as the
\* failed statement left it
Raise(kind, why, f) ==
    /\ pc' = "except"
    /\ err' = [kind |-> kind, why |-> why]
    /\ fs' = f
    /\ raised_at' = f

\* write_yaml(content, target) inside the try statement: it fails on open, or
\* half way (fault), or it succeeds and the run goes on at next
WriteYaml(content, target, fault, why, next) ==
    IF open_error(fs, target) # ""
    THEN Raise(open_error(fs, target), why, fs)
    ELSE IF fault
    THEN Raise("OSError", why, Bind(fs, target, PartialFile))
    ELSE /\ fs' = Bind(fs, target, File(content))
         /\ pc' = next
         /\ UNCHANGED <<err, raised_at>>

Name(p) == p[Len(p)]

\* every backup under one name
backup_under_one_name(file) == Append(backup_location, "domain.yml")

\* line 223
backup_target(file) == Append(backup_location, Name(file))

\* lines 332-339
MakeOutDir ==
    /\ pc = "try"
    /\ ~migrate_file_only
    /\ IF is_dir(fs, out_path)
       THEN /\ pc' = "mkdir_backup"
            /\ UNCHANGED <<fs, created_out_dir, err, raised_at>>
       ELSE IF mkdir_error(fs, out_path, TRUE) # ""
       THEN /\ Raise(mkdir_error(fs, out_path, TRUE), "out_mkdir", fs)
            /\ UNCHANGED created_out_dir
       ELSE /\ fs' = mkdir(fs, out_path)
            /\ created_out_dir' = TRUE
            /\ pc' = "mkdir_backup"
            /\ UNCHANGED <<err, raised_at>>
    /\ UNCHANGED <<fs0, domain_path, out_path, domain_files, idx, acc,
                   original_domain, new_tables, call, ret>>

\* line 340
MakeBackupDir ==
    /\ pc = "mkdir_backup"
    /\ IF mkdir_error(fs, backup_location, FALSE) # ""
       THEN Raise(mkdir_error(fs, backup_location, FALSE), "backup_mkdir", fs)
       ELSE /\ fs' = mkdir(fs, backup_location)
            /\ pc' = "list_files"
            /\ UNCHANGED <<err, raised_at>>
    /\ UNCHANGED <<fs0, domain_path, out_path, created_out_dir, domain_files, idx,
                   acc, original_domain, new_tables, call, ret>>

\* _migrate_domain_files, lines 207-219
ListDomainFiles ==
    /\ pc = "list_files"
    /\ domain_files' = DomainFilesOf(fs, domain_path)
    /\ IF domain_files' = <<>>
       THEN Raise("RasaException", "no_domain_files", fs) /\ UNCHANGED idx
       ELSE /\ pc' = "create_back_up"
            /\ idx' = 1
            /\ UNCHANGED <<fs, err, raised_at>>
    /\ UNCHANGED <<fs0, domain_path, out_path, created_out_dir, acc,
                   original_domain, new_tables, call, ret>>

\* _migrate_domain_files, lines 223-224: _create_back_up of the file at idx
CreateBackUp ==
    /\ pc = "create_back_up"
    /\ \E fault \in {"none", "read", "write"} :
          LET file == domain_files[idx]
              original_content == read_yaml_file(fs, file)
          IN  IF fault = "read"
              THEN Raise("YamlException", "backup_read", fs) /\ UNCHANGED acc
              ELSE /\ WriteYaml(original_content, backup_target(file),
                                fault = "write", "backup_write", "classify")
                   /\ acc' = [acc EXCEPT !.original_content = original_content]
    /\ UNCHANGED <<fs0, domain_path, out_path, created_out_dir, domain_files, idx,
                   original_domain, new_tables, call, ret>>

\* the entities of the file at hand replace the ones collected so far
collect_last_entities(original_content) ==
    /\ acc' = [slots |-> OUpdate(acc.slots, OGet(original_content, KEY_SLOTS, <<>>)),
               forms |-> OUpdate(acc.forms, OGet(original_content, KEY_FORMS, <<>>)),
               entities |-> OGet(original_content, KEY_ENTITIES, <<>>),
               original_content |-> <<>>]
    /\ idx' = idx + 1

\* _migrate_domain_files, lines 250-252, and the next turn of the loop
Collect(original_content) ==
    /\ acc' = [slots |-> OUpdate(acc.slots, OGet(original_content, KEY_SLOTS, <<>>)),
               forms |-> OUpdate(acc.forms, OGet(original_content, KEY_FORMS, <<>>)),
               entities |-> acc.entities \o OGet(original_content, KEY_ENTITIES, <<>>),
               original_content |-> <<>>]
    /\ idx' = idx + 1

AfterFile == IF idx = Len(domain_files) THEN "check_sections" ELSE "create_back_up"

\* _migrate_domain_files, lines 226-252, for the file at idx
ClassifyFile ==
    /\ pc = "classify"
    /\ LET file == domain_files[idx]
           original_content == acc.original_content
       IN  IF ~OHas(original_content, KEY_SLOTS) /\ ~OHas(original_content, KEY_FORMS)
           THEN \E fault \in BOOLEAN :
                   /\ WriteYaml(OPut(original_content, "version", TargetVersion),
                                Append(out_path, Name(file)), fault,
                                "version_only_write", AfterFile)
                   /\ IF pc' = "except" THEN UNCHANGED <<acc, idx>>
                      ELSE Collect(original_content)
           ELSE IF OHas(original_content, KEY_SLOTS) /\ acc.slots # <<>>
           THEN Raise("RasaException", "multiple_slots", fs) /\ UNCHANGED <<acc, idx>>
           ELSE IF OHas(original_content, KEY_FORMS) /\ acc.forms # <<>>
           THEN Raise("RasaException", "multiple_forms", fs) /\ UNCHANGED <<acc, idx>>
           ELSE /\ Collect(original_content)
                /\ pc' = AfterFile
                /\ UNCHANGED <<fs, err, raised_at>>
    /\ UNCHANGED <<fs0, domain_path, out_path, created_out_dir, domain_files,
                   original_domain, new_tables, call, ret>>

\* _migrate_domain_files, lines 254-261
CheckSections ==
    /\ pc = "check_sections"
    /\ IF acc.slots = <<>> \/ acc.forms = <<>>
       THEN Raise("RasaException", "missing_slots_or_forms", fs)
            /\ UNCHANGED original_domain
       ELSE /\ original_domain' = <<E(KEY_SLOTS, acc.slots), E(KEY_FORMS, acc.forms),
                                    E(KEY_ENTITIES, acc.entities)>>
            /\ pc' = "transform"
            /\ UNCHANGED <<fs, err, raised_at>>
    /\ UNCHANGED <<fs0, domain_path, out_path, created_out_dir, domain_files, idx,
                   acc, new_tables, call, ret>>

\* lines 345-349
ValidateFile ==
    /\ pc = "try"
    /\ migrate_file_only
    /\ IF ~is_domain_file(fs, domain_path)
       THEN Raise("RasaException", "not_a_domain_file", fs)
       ELSE /\ pc' = "create_back_up_file"
            /\ UNCHANGED <<fs, err, raised_at>>
    /\ UNCHANGED <<fs0, domain_path, out_path, created_out_dir, domain_files, idx,
                   acc, original_domain, new_tables, call, ret>>

\* line 350
CreateBackUpFile ==
    /\ pc = "create_back_up_file"
    /\ \E fault \in {"none", "read", "write"} :
          IF fault = "read"
          THEN Raise("YamlException", "backup_read", fs) /\ UNCHANGED original_domain
          ELSE /\ WriteYaml(read_yaml_file(fs, domain_path), backup_location,
                            fault = "write", "backup_write", "transform")
               /\ original_domain' = IF pc' = "except" THEN original_domain
                                     ELSE read_yaml_file(fs, domain_path)
    /\ UNCHANGED <<fs0, domain_path, out_path, created_out_dir, domain_files, idx,
                   acc, new_tables, call, ret>>

\* lines 352-353, and the files _write_final_domain goes through (lines 183-186)
Transform ==
    /\ pc = "transform"
    /\ LET restructured == _migrate_form_slots(original_domain)
       IN  new_tables' =
               [new_forms |-> restructured.new_forms,
                new_slots |-> _migrate_auto_fill_and_custom_slots(
                                  original_domain, restructured.updated_slots)]
    /\ domain_files' = IF migrate_file_only THEN <<domain_path>>
                       ELSE DomainFilesOf(fs, domain_path)
    /\ idx' = 1
    /\ pc' = "write"
    /\ UNCHANGED <<fs, fs0, domain_path, out_path, created_out_dir, acc,
                   original_domain, err, raised_at, call, ret>>

\* _write_final_domain, lines 187-188 and 190-191, for the file at idx; after
\* the last file, print_success (lines 357-361)
WriteFinalDomain ==
    /\ pc = "write"
    /\ \E fault \in BOOLEAN :
          LET file == domain_files[idx]
              new_domain == _assemble_new_domain(read_yaml_file(fs, file),
                                new_tables.new_forms, new_tables.new_slots)
          IN  WriteYaml(new_domain,
                        IF migrate_file_only THEN out_path
                        ELSE Append(out_path, Name(file)),
                        fault, "final_write",
                        IF idx = Len(domain_files) THEN "done" ELSE "write")
    /\ idx' = IF pc' = "except" THEN idx ELSE idx + 1
    /\ UNCHANGED <<fs0, domain_path, out_path, created_out_dir, domain_files, acc,
                   original_domain, new_tables, call, ret>>

\* the backup directory is left where it is
keep_backup_dir(f) == f

\* lines 365-366
remove_backup_dir(f) ==
    IF is_dir(f, backup_location) THEN rmtree(f, backup_location) ELSE f

\* lines 363-375: the except clause
Rollback ==
    /\ pc = "except"
    /\ pc' = "aborted"
    /\ LET f1 == remove_backup_dir(fs)
           entries == {iterdir(f1, out_path)[i] : i \in 1..Len(iterdir(f1, out_path))}
           unlink_backup(f) == IF is_file(f, backup_location)
                               THEN Unbind(f, {backup_location}) ELSE f
       IN  IF ~is_dir(f1, out_path)
           THEN fs' = unlink_backup(f1) /\ UNCHANGED err
           ELSE IF created_out_dir
           THEN fs' = unlink_backup(rmtree(f1, out_path)) /\ UNCHANGED err
           ELSE IF \E q \in entries : is_dir(f1, q)
           THEN \* unlink of a directory raises: glob's order decides which files
                \* went before it, and the last statements are not reached
                \E gone \in SUBSET {q \in entries : is_file(f1, q)} :
                    /\ fs' = Unbind(f1, gone)
                    /\ err' = [kind |-> "IsADirectoryError", why |-> "rollback_unlink"]
           ELSE fs' = unlink_backup(Unbind(f1, entries)) /\ UNCHANGED err
    /\ UNCHANGED <<fs0, domain_path, out_path, created_out_dir, domain_files, idx,
                   acc, original_domain, new_tables, raised_at, call, ret>>

Next ==
    \/ Preflight
    \/ MakeOutDir
    \/ MakeBackupDir
    \/ ListDomainFiles
    \/ CreateBackUp
    \/ ClassifyFile
    \/ CheckSections
    \/ ValidateFile
    \/ CreateBackUpFile
    \/ Transform
    \/ WriteFinalDomain
    \/ Rollback

Spec == Init /\ [][Next]_vars

-----------------------------------------------------------------------------
(* Properties of a run of migrate_domain_format (specification Spec) *)

\* the recognized input documents of a directory, as they were before the run
RecognizedInputs == DomainFilesOf(fs0, domain_path)

BackupOf(file) == Append(backup_location, Name(file))

OutputOf(file) == Append(out_path, Name(file))

BackedUp(file) == is_file(fs, BackupOf(file)) /\ fs[BackupOf(file)].complete

\* an output file of this run for the input document file
OutputExists(file) == is_file(fs, OutputOf(file)) /\ ~exists(fs0, OutputOf(file))

AllBackedUp == \A i \in 1..Len(RecognizedInputs) : BackedUp(RecognizedInputs[i])

HasSection(file, key) == OHas(read_yaml_file(fs0, file), key)

\* the exception was raised with the backup directory in place
FailedAfterBackupDir ==
    pc = "aborted" /\ ~migrate_file_only /\ is_dir(raised_at, backup_location)

\* C1: directory input: when a run fails after the backup directory was
\* created, then once the exception has reached the caller the backup
\* directory does not exist, and the output directory does not exist when the
\* run created it, and is empty again when it existed (empty) before the run.
C1_RollbackOfDirectoryRun ==
    FailedAfterBackupDir =>
        /\ ~exists(fs, backup_location)
        /\ ~is_dir(fs0, out_path) => ~exists(fs, out_path)
        /\ is_dir(fs0, out_path) =>
               is_dir(fs, out_path) /\ iterdir(fs, out_path) = <<>>

\* a run into an existing, empty output directory that failed with backups and
\* outputs already written
C1_Witness ==
    /\ FailedAfterBackupDir
    /\ is_dir(fs0, out_path)
    /\ iterdir(raised_at, backup_location) # <<>>
    /\ iterdir(raised_at, out_path) # <<>>

\* the backup file was written whole: the run came to its end, or failed later
BackupWasWritten ==
    \/ pc = "done"
    \/ /\ pc = "aborted"
       /\ is_file(raised_at, backup_location)
       /\ raised_at[backup_location].complete

\* C2: single-file input: a run that fails after the backup file was written
\* leaves neither the backup file nor an output file of this run; the only end
\* states are {no backup, no output} and {backup kept, output complete}.
C2_SingleFileEndStates ==
    (migrate_file_only /\ BackupWasWritten) =>
        \/ /\ pc = "aborted"
           /\ ~exists(fs, backup_location)
           /\ ~(is_file(fs, out_path) /\ ~exists(fs0, out_path))
        \/ /\ pc = "done"
           /\ is_file(fs, backup_location)
           /\ is_file(fs, out_path) /\ fs[out_path].complete

\* C3 as stated: in a run over a directory no output file exists while some
\* recognized input document is not backed up yet.
C3_AllBackedUpBeforeAnyOutput ==
    (~migrate_file_only /\ \E i \in 1..Len(RecognizedInputs) :
                               OutputExists(RecognizedInputs[i]))
        => AllBackedUp

\* C3 as amended: an output file exists for an input document only when that
\* document is backed up, and the output of a document that holds a slots or a
\* forms section exists only when every recognized input document is backed up;
\* the output of a document with neither section is written in the loop turn
\* of its own backup, before the later documents are backed up.
C3_BackedUpBeforeOwnOutput ==
    ~migrate_file_only =>
        \A i \in 1..Len(RecognizedInputs) :
            LET file == RecognizedInputs[i]
            IN  OutputExists(file) =>
                    /\ BackedUp(file)
                    /\ (HasSection(file, KEY_SLOTS) \/ HasSection(file, KEY_FORMS))
                           => AllBackedUp

\* the version-only output of one document is written and a later document is
\* not backed up yet
C3_Witness ==
    /\ ~migrate_file_only
    /\ pc = "create_back_up"
    /\ \E i, j \in 1..Len(RecognizedInputs) :
          /\ OutputExists(RecognizedInputs[i])
          /\ BackedUp(RecognizedInputs[i])
          /\ ~BackedUp(RecognizedInputs[j])

ChecksBeforeTry ==
    {"backup_exists", "out_dir_not_empty", "out_file_exists", "already_migrated"}

ChecksOfDirectory == {"no_domain_files", "multiple_slots", "multiple_forms"}

\* C4 as stated: every preflight rejection is raised with the filesystem as it
\* was before the run.
C4_RejectedBeforeAnyMutation ==
    err.why \in ChecksBeforeTry \cup ChecksOfDirectory => raised_at = fs0

\* C4 as amended: the rejections made before the try statement (backup path
\* exists, output destination in use, already-migrated input) are raised with
\* the filesystem untouched; the rejections of a directory (no recognized
\* documents, more than one slots section, more than one forms section) are
\* raised after the run has created the backup directory, and the except
\* clause removes it and what the run put in the output location before the
\* exception reaches the caller.
C4_RejectedBeforeMutationOrRolledBack ==
    /\ err.why \in ChecksBeforeTry =>
           pc = "rejected" /\ raised_at = fs0 /\ fs = fs0
    /\ err.why \in ChecksOfDirectory =>
           /\ pc \in {"except", "aborted"}
           /\ ~exists(fs0, backup_location)
           /\ is_dir(raised_at, backup_location)
           /\ pc = "aborted" =>
                  /\ ~exists(fs, backup_location)
                  /\ ~exists(fs0, out_path) => ~exists(fs, out_path)
                  /\ is_dir(fs0, out_path) => iterdir(fs, out_path) = <<>>

\* a second forms section was rejected after backups were written, and the
\* exception has reached the caller
C4_Witness ==
    /\ pc = "aborted"
    /\ err.why = "multiple_forms"
    /\ iterdir(raised_at, backup_location) # <<>>

SectionCount(key) ==
    Cardinality({i \in 1..Len(RecognizedInputs) : HasSection(RecognizedInputs[i], key)})

\* C5: a directory in which more than one recognized document declares a slots
\* section, or more than one a forms section, is never migrated with success.
C5_DuplicateSectionsRejected ==
    (~migrate_file_only /\ (SectionCount(KEY_SLOTS) > 1 \/ SectionCount(KEY_FORMS) > 1))
        => pc # "done"

-----------------------------------------------------------------------------
(* The mapping merger on its own: _get_updated_or_new_mappings applied to   *)
(* every pair of rule lists within the bound.                                *)

MaxMappings == 2

SeqsUpTo(S, n) == UNION {[1..k -> S] : k \in 0..n}

FromEntityS1 == [type |-> FROM_ENTITY, entity |-> "s1"]

FromTriggerIntent == [type |-> FROM_TRIGGER_INTENT, intent |-> "book"]

FromText == [type |-> "from_text"]

NoType == [entity |-> "s1"]

\* {active_loop: f0}: a condition a legacy rule already carries
PreCondition == [x \in {ACTIVE_LOOP} |-> "f0"]

WithConditions(mapping, conditions) == Update(mapping, "conditions", conditions)

BaseRules == {FromEntityS1, FromTriggerIntent, FromText, NoType}

ExistingRules ==
    BaseRules \cup {WithConditions(FromEntityS1, <<PreCondition>>),
                    WithConditions(FromText, <<PreCondition>>)}

FormRules == BaseRules \cup {WithConditions(FromText, <<PreCondition>>)}

InitMerge ==
    /\ pc = "merge_call"
    /\ call \in [existing_mappings : SeqsUpTo(ExistingRules, MaxMappings),
                 new_mappings : SeqsUpTo(FormRules, MaxMappings),
                 form_name : {"f1"},
                 slot_name : {"s1", "s2"}]
    /\ ret = <<>>
    /\ fs = <<>> /\ fs0 = <<>> /\ domain_path = <<>> /\ out_path = <<>>
    /\ created_out_dir = FALSE /\ domain_files = <<>> /\ idx = 0 /\ acc = NoAcc
    /\ original_domain = <<>> /\ new_tables = NoTables /\ err = NoErr
    /\ raised_at = <<>>

\* lines 97-102: the call _migrate_form_slots makes for one form and one slot
MergeMappings ==
    /\ pc = "merge_call"
    /\ ret' = _get_updated_or_new_mappings(
                  call.existing_mappings, call.new_mappings,
                  [x \in {ACTIVE_LOOP} |-> call.form_name], call.slot_name)
    /\ pc' = "merge_return"
    /\ UNCHANGED <<fs, fs0, domain_path, out_path, created_out_dir, domain_files,
                   idx, acc, original_domain, new_tables, err, raised_at, call>>

SpecMerge == InitMerge /\ [][MergeMappings]_vars

-----------------------------------------------------------------------------
(* The restructurer followed by the normalizer (lines 352-353), applied to   *)
(* every domain built from the legacy slot tables and forms below.           *)

MaxForms == 2

FormNames == <<"f1", "f2", "f3", "f4">>

\* a second condition a legacy rule may carry
OtherCondition == [x \in {ACTIVE_LOOP} |-> "f9"]

\* the legacy mappings of slot s1: [] stands for a slot without the key
LegacyMappings ==
    {<<>>,
     <<FromEntityS1>>,
     <<WithConditions(FromEntityS1, <<PreCondition>>)>>,
     <<FromText>>,
     <<WithConditions(FromText, <<PreCondition>>)>>,
     <<FromText, FromEntityS1>>,
     <<FromText, FromText>>,
     <<WithConditions(FromText, <<PreCondition>>),
       WithConditions(FromText, <<OtherCondition>>)>>}

LegacyProperties ==
    {[type |-> "text"]}
    \cup {[type |-> "text", mappings |-> m] : m \in LegacyMappings}
    \cup {[type |-> "text", auto_fill |-> a] : a \in BOOLEAN}
    \cup {[type |-> "text", auto_fill |-> a, mappings |-> m] :
             a \in BOOLEAN, m \in LegacyMappings}

\* the legacy slots tables: none, or s1 followed by a slot no form names
LegacyTables ==
    {<<>>} \cup {<<E("s1", p), E("s3", [type |-> "text"])>> : p \in LegacyProperties}

\* the legacy forms, each in one of the two layouts
LegacyForms ==
    <<<<E("s1", <<FromEntityS1>>)>>,
      <<E(IGNORED_INTENTS, <<"chitchat">>),
        E(REQUIRED_SLOTS_KEY, <<E("s1", <<FromText>>)>>)>>,
      <<E("s1", <<FromText, FromText>>)>>,
      <<E("s1", <<FromText, FromEntityS1>>), E("s2", <<>>)>>,
      <<>>,
      <<E(REQUIRED_SLOTS_KEY, <<E("s2", <<NoType>>), E("s1", <<>>)>>)>>,
      <<E("s1", <<WithConditions(FromText, <<OtherCondition>>)>>)>>,
      <<E("s1", <<FromTriggerIntent>>)>>,
      <<E("s2", <<>>)>>>>

InitMigrate ==
    /\ pc = "migrate_call"
    /\ \E slots \in LegacyTables, entities \in {<<>>, <<"s1", "s3">>},
          n \in 0..MaxForms :
          \E pick \in [1..n -> 1..Len(LegacyForms)] :
              call = <<E(KEY_SLOTS, slots),
                       E(KEY_FORMS, [i \in 1..n |-> E(FormNames[i], LegacyForms[pick[i]])]),
                       E(KEY_ENTITIES, entities)>>
    /\ ret = [new_forms |-> <<>>, updated_slots |-> <<>>, new_slots |-> <<>>]
    /\ fs = <<>> /\ fs0 = <<>> /\ domain_path = <<>> /\ out_path = <<>>
    /\ created_out_dir = FALSE /\ domain_files = <<>> /\ idx = 0 /\ acc = NoAcc
    /\ original_domain = <<>> /\ new_tables = NoTables /\ err = NoErr
    /\ raised_at = <<>>

\* line 352
Restructure ==
    /\ pc = "migrate_call"
    /\ LET done == _migrate_form_slots(call)
       IN  ret' = [ret EXCEPT !.new_forms = done.new_forms,
                              !.updated_slots = done.updated_slots]
    /\ pc' = "restructured"
    /\ UNCHANGED <<fs, fs0, domain_path, out_path, created_out_dir, domain_files,
                   idx, acc, original_domain, new_tables, err, raised_at, call>>

\* line 353
Normalize ==
    /\ pc = "restructured"
    /\ ret' = [ret EXCEPT !.new_slots =
                   _migrate_auto_fill_and_custom_slots(call, ret.updated_slots)]
    /\ pc' = "normalized"
    /\ UNCHANGED <<fs, fs0, domain_path, out_path, created_out_dir, domain_files,
                   idx, acc, original_domain, new_tables, err, raised_at, call>>

NextMigrate == Restructure \/ Normalize

SpecMigrate == InitMigrate /\ [][NextMigrate]_vars

-----------------------------------------------------------------------------
(* Properties of the merger (specification SpecMerge) and of the            *)
(* restructurer followed by the normalizer (specification SpecMigrate)      *)

IgnoringConditions(mapping) == [x \in (DOMAIN mapping) \ {"conditions"} |-> mapping[x]]

ConditionsOf(mapping) == IF "conditions" \in DOMAIN mapping THEN mapping.conditions ELSE <<>>

MappingsOf(properties) == IF "mappings" \in DOMAIN properties THEN properties.mappings ELSE <<>>

TypeOf(mapping) == IF "type" \in DOMAIN mapping THEN mapping.type ELSE "None"

\* the condition spec 4.1 asks for, for a rule of form F and slot S
QualifiedCondition(F, mapping, S) ==
    IF TypeOf(mapping) \in {"from_entity", "from_trigger_intent"}
    THEN [active_loop |-> F]
    ELSE [active_loop |-> F, requested_slot |-> S]

InputSlots == OGet(call, KEY_SLOTS, <<>>)

InputForms == OGet(call, KEY_FORMS, <<>>)

InputEntities == OGet(call, KEY_ENTITIES, <<>>)

\* the legacy mappings of slot S
LegacyOf(S) == MappingsOf(OGet(InputSlots, S, <<>>))

\* what the i-th form declares for slot S, in either layout of a legacy form
DeclaredFor(i, S) ==
    LET form == InputForms[i].val
        declarations == IF OHas(form, "required_slots")
                        THEN OGet(form, "required_slots", <<>>)
                        ELSE SelectSeq(form, LAMBDA e : e.key # "ignored_intents")
    IN  OGet(declarations, S, <<>>)

\* the positions of list that hold rule r, conditions set aside
PositionsOf(r, list) == {k \in 1..Len(list) : IgnoringConditions(list[k]) = r}

FormsDeclaring(r, S) == {i \in 1..Len(InputForms) : PositionsOf(r, DeclaredFor(i, S)) # {}}

\* C6: after the restructurer and the normalizer every slot of the final slot
\* table has at least one mapping rule.
C6_EverySlotHasAMapping ==
    pc = "normalized" =>
        \A i \in 1..Len(ret.new_slots) :
            /\ "mappings" \in DOMAIN ret.new_slots[i].val
            /\ Len(ret.new_slots[i].val.mappings) >= 1

\* the final table of a domain whose slot s1 has an empty mapping list and
\* auto_fill false, whose slot s3 has no mappings, and whose slot s2 exists only
\* because a form names it with an empty rule list
C6_Witness ==
    /\ pc = "normalized"
    /\ OHas(InputSlots, "s1")
    /\ "mappings" \in DOMAIN OGet(InputSlots, "s1", <<>>)
    /\ LegacyOf("s1") = <<>>
    /\ "auto_fill" \in DOMAIN OGet(InputSlots, "s1", <<>>)
    /\ ~OGet(InputSlots, "s1", <<>>).auto_fill
    /\ MappingsOf(OGet(ret.updated_slots, "s1", <<>>)) = <<>>
    /\ ~OHas(InputSlots, "s2")
    /\ OHas(ret.updated_slots, "s2")
    /\ MappingsOf(OGet(ret.updated_slots, "s2", <<>>)) = <<>>
    /\ OHas(ret.new_slots, "s3")

NoRuleTwice(list) == \A i, j \in 1..Len(list) : i # j => list[i] # list[j]

\* C7 (for legacy tables that hold no rule twice themselves): after the
\* migration no slot's rule list holds two rules that are identical, conditions
\* included.
C7_NoIdenticalRules ==
    (pc = "normalized" /\ \A i \in 1..Len(InputSlots) :
                              NoRuleTwice(MappingsOf(InputSlots[i].val)))
        => \A i \in 1..Len(ret.new_slots) : NoRuleTwice(ret.new_slots[i].val.mappings)

\* the forms that declare r for S, in the order of the forms
RECURSIVE FormConditions(_, _, _)
FormConditions(r, S, i) ==
    IF i > Len(InputForms) THEN <<>>
    ELSE (IF i \in FormsDeclaring(r, S)
          THEN <<QualifiedCondition(InputForms[i].key, r, S)>> ELSE <<>>)
         \o FormConditions(r, S, i + 1)

\* the conditions the legacy rule(s) equal to r carry
LegacyConditions(r, S) ==
    IF PositionsOf(r, LegacyOf(S)) = {} THEN <<>>
    ELSE ConditionsOf(LegacyOf(S)[CHOOSE k \in PositionsOf(r, LegacyOf(S)) : TRUE])

MergedOf(S) == MappingsOf(OGet(ret.updated_slots, S, <<>>))

\* after all forms: one rule equal to r, with the legacy conditions followed
\* by one condition per declaring form, and no rule of the slot or a form lost
SharedRuleAccumulates(r, S) ==
    /\ Cardinality(PositionsOf(r, MergedOf(S))) = 1
    /\ \A k \in PositionsOf(r, MergedOf(S)) :
           ConditionsOf(MergedOf(S)[k]) = LegacyConditions(r, S) \o FormConditions(r, S, 1)
    /\ \A k \in 1..Len(LegacyOf(S)) :
           PositionsOf(IgnoringConditions(LegacyOf(S)[k]), MergedOf(S)) # {}
    /\ \A i \in 1..Len(InputForms) : \A k \in 1..Len(DeclaredFor(i, S)) :
           PositionsOf(IgnoringConditions(DeclaredFor(i, S)[k]), MergedOf(S)) # {}

\* N >= 1 forms declare r for S, each once
DeclaredOnceByForms(r, S) ==
    /\ FormsDeclaring(r, S) # {}
    /\ \A i \in FormsDeclaring(r, S) : Cardinality(PositionsOf(r, DeclaredFor(i, S))) = 1

C9_ConditionQualification ==
    pc = "merge_return" =>
        /\ Len(ret) >= Len(call.existing_mappings)
        /\ \A k \in 1..Len(ret) :
               LET q == QualifiedCondition(call.form_name, ret[k], call.slot_name)
               IN  IF k <= Len(call.existing_mappings)
                   THEN \/ ConditionsOf(ret[k]) = ConditionsOf(call.existing_mappings[k])
                        \/ ConditionsOf(ret[k]) =
                               Append(ConditionsOf(call.existing_mappings[k]), q)
                   ELSE ConditionsOf(ret[k]) = <<q>>

\* an existing from_text rule with a condition is shared with the form, which
\* also brings a new from_trigger_intent rule
C9_Witness ==
    /\ pc = "merge_return"
    /\ call.existing_mappings = <<WithConditions(FromText, <<PreCondition>>)>>
    /\ call.new_mappings = <<FromTriggerIntent, FromText>>
    /\ Len(ret) = 2
    /\ Len(ConditionsOf(ret[1])) = 2
    /\ ConditionsOf(ret[2]) = <<[active_loop |-> "f1"]>>

\* the normalizer appended the from_entity rule to the i-th slot
AutoFillAppended(i) ==
    ret.new_slots[i].val.mappings =
        Append(MappingsOf(ret.updated_slots[i].val),
               [type |-> "from_entity", entity |-> ret.updated_slots[i].key])

\* C10: the normalizer appends a from_entity rule for entity = slot name iff the
\* slot's name is in the entities list, its auto_fill is absent or true, and the
\* slot holds no rule of type from_entity with that entity name, whether or not
\* that rule carries conditions.
C10_AutoFillIffNoFromEntityRule ==
    pc = "normalized" =>
        \A i \in 1..Len(ret.updated_slots) :
            LET name == ret.updated_slots[i].key
                properties == ret.updated_slots[i].val
                before == MappingsOf(properties)
            IN  AutoFillAppended(i) <=>
                    /\ InList(name, InputEntities)
                    /\ ("auto_fill" \in DOMAIN properties => properties.auto_fill)
                    /\ ~\E k \in 1..Len(before) :
                           /\ TypeOf(before[k]) = "from_entity"
                           /\ "entity" \in DOMAIN before[k]
                           /\ before[k].entity = name

\* C11: after the migration every slot name in the required-slot list of a
\* migrated form is a key of the final slot table, the names no legacy slots
\* table declared included.
C11_RequiredSlotsAreSlots ==
    pc = "normalized" =>
        \A i \in 1..Len(ret.new_forms) :
            \A k \in 1..Len(ret.new_forms[i].val.required_slots) :
                \E j \in 1..Len(ret.new_slots) :
                    ret.new_slots[j].key = ret.new_forms[i].val.required_slots[k]

\* a form requires s2, which the legacy slots table (declaring s1 and s3) lacks
C11_Witness ==
    /\ pc = "normalized"
    /\ OHas(InputSlots, "s1")
    /\ ~OHas(InputSlots, "s2")
    /\ \E i \in 1..Len(ret.new_forms) :
          InList("s2", ret.new_forms[i].val.required_slots)
    /\ OHas(ret.new_slots, "s2")

-----------------------------------------------------------------------------
(* Further properties of a run of migrate_domain_format (specification Spec) *)

\* the file at path p of f holds, whole, what path q held before the run
Mirrors(f, p, q) == is_file(f, p) /\ f[p] = File(read_yaml_file(fs0, q))

\* C12: after a run that ends in success the backup location holds the
\* pre-migration content of every recognized input document: the backup file
\* that of a single-file input, the backup directory that of every document
\* of a directory input under the document's file name.
C12_BackupMirrorsInputs ==
    pc = "done" =>
        IF migrate_file_only
        THEN Mirrors(fs, backup_location, domain_path)
        ELSE /\ is_dir(fs, backup_location)
             /\ \A i \in 1..Len(RecognizedInputs) :
                    Mirrors(fs, BackupOf(RecognizedInputs[i]), RecognizedInputs[i])

\* the input documents of the run, as paths
InputDocuments == IF migrate_file_only THEN <<domain_path>> ELSE RecognizedInputs

\* where the run writes the migrated version of an input document
WrittenTo(file) == IF migrate_file_only THEN out_path ELSE OutputOf(file)

Original(file) == read_yaml_file(fs0, file)

\* doc with the value of its version key, if it has one, set to the target
WithTargetVersion(doc) ==
    [i \in 1..Len(doc) |->
        IF doc[i].key = "version" THEN [key |-> "version", val |-> "\"3.0\""]
        ELSE doc[i]]

VersionOnly(file) == ~HasSection(file, "slots") /\ ~HasSection(file, "forms")

\* C13: after a run that ends in success, the output of every input document
\* that has neither a slots nor a forms key has the keys of the original in
\* the same order with the same values, except that a version key holds the
\* target version marker.
C13_VersionOnlyDocumentKept ==
    pc = "done" =>
        \A i \in 1..Len(InputDocuments) :
            LET file == InputDocuments[i]
            IN  VersionOnly(file) =>
                    /\ is_file(fs, WrittenTo(file))
                    /\ fs[WrittenTo(file)] = File(WithTargetVersion(Original(file)))

\* a directory migrated with success that holds a document with neither
\* section and without a version key
C13_Witness ==
    /\ pc = "done"
    /\ ~migrate_file_only
    /\ \E i \in 1..Len(InputDocuments) :
          /\ VersionOnly(InputDocuments[i])
          /\ ~HasSection(InputDocuments[i], "version")
          /\ is_file(fs, WrittenTo(InputDocuments[i]))
          /\ ~exists(fs0, WrittenTo(InputDocuments[i]))

-----------------------------------------------------------------------------
(* The document assembler on its own: _assemble_new_domain applied to every *)
(* document of up to MaxKeys distinct keys and to the tables of a run.       *)

MaxKeys == 3

\* the keys a document may hold, each with the value it has in the documents
DocumentItems ==
    {E("version", "2.0"), E("intents", <<"greet">>), E(KEY_ENTITIES, <<"s1">>),
     E(KEY_SLOTS, PoolSlots), E(KEY_FORMS, PoolForms), E("responses", <<"utter_ask">>)}

Documents ==
    {d \in SeqsUpTo(DocumentItems, MaxKeys) :
        \A i, j \in 1..Len(d) : i # j => d[i].key # d[j].key}

\* the tables handed to the assembler: those of a run over the pool's sections
\* or empty ones
AssemblerTables ==
    {[new_forms |-> <<>>, new_slots |-> <<>>],
     LET domain == <<E(KEY_SLOTS, PoolSlots), E(KEY_FORMS, PoolForms),
                     E(KEY_ENTITIES, <<"s1">>)>>
         restructured == _migrate_form_slots(domain)
     IN  [new_forms |-> restructured.new_forms,
          new_slots |-> _migrate_auto_fill_and_custom_slots(
                            domain, restructured.updated_slots)]}

InitAssemble ==
    /\ pc = "assemble_call"
    /\ call \in [original_content : Documents, tables : AssemblerTables]
    /\ ret = <<>>
    /\ fs = <<>> /\ fs0 = <<>> /\ domain_path = <<>> /\ out_path = <<>>
    /\ created_out_dir = FALSE /\ domain_files = <<>> /\ idx = 0 /\ acc = NoAcc
    /\ original_domain = <<>> /\ new_tables = NoTables /\ err = NoErr
    /\ raised_at = <<>>

\* lines 187 and 190
Assemble ==
    /\ pc = "assemble_call"
    /\ ret' = _assemble_new_domain(call.original_content, call.tables.new_forms,
                                   call.tables.new_slots)
    /\ pc' = "assemble_return"
    /\ UNCHANGED <<fs, fs0, domain_path, out_path, created_out_dir, domain_files,
                   idx, acc, original_domain, new_tables, err, raised_at, call>>

SpecAssemble == InitAssemble /\ [][Assemble]_vars

\* C14: the assembled document has exactly the keys of the original in the
\* original order; the values of the slots, forms and version keys are the new
\* slot table, the new form table and the target version marker, every other
\* key keeps its value, and no key is added.
C14_AssemblerFrame ==
    pc = "assemble_return" =>
        /\ Len(ret) = Len(call.original_content)
        /\ \A i \in 1..Len(ret) :
               /\ ret[i].key = call.original_content[i].key
               /\ ret[i].key = "slots" => ret[i].val = call.tables.new_slots
               /\ ret[i].key = "forms" => ret[i].val = call.tables.new_forms
               /\ ret[i].key = "version" => ret[i].val = "\"3.0\""
               /\ ret[i].key \notin {"slots", "forms", "version"} =>
                      ret[i].val = call.original_content[i].val

\* a document without a version key, with a forms key before an untouched key,
\* assembled with the tables of a run
C14_Witness ==
    /\ pc = "assemble_return"
    /\ Len(ret) = MaxKeys
    /\ ~OHas(call.original_content, "version")
    /\ ~OHas(ret, "version")
    /\ ret[1].key = "forms"
    /\ Len(call.tables.new_forms) = 1
    /\ ret[1].val = call.tables.new_forms
    /\ ret[2].key = "intents"

-----------------------------------------------------------------------------
(* Further properties of the merger (specification SpecMerge) *)

\* the existing rules that took a condition of the form: each is matched with
\* one rule of the form
Shared == {k \in 1..Len(call.existing_mappings) :
              ConditionsOf(ret[k]) # ConditionsOf(call.existing_mappings[k])}

\* the rules of the output after the existing ones
NewPart == SubSeq(ret, Len(call.existing_mappings) + 1, Len(ret))

\* C15: the output of the merger lists the slot's existing rules first, in
\* their order, each unchanged or with one condition appended; after them come
\* the rules of the form that were matched with no existing rule, in the order
\* in which the form declares them: one rule of the form is taken out for
\* every existing rule that took a condition, and a rule of the form that
\* equals no existing rule is never taken out.
C15_ExistingFirstThenNew ==
    pc = "merge_return" =>
        LET existing == call.existing_mappings
            new == call.new_mappings
        IN  /\ Len(ret) = Len(existing) + Len(new) - Cardinality(Shared)
            /\ \A k \in 1..Len(existing) :
                   /\ IgnoringConditions(ret[k]) = IgnoringConditions(existing[k])
                   /\ IF k \in Shared
                      THEN /\ Len(ConditionsOf(ret[k])) = Len(ConditionsOf(existing[k])) + 1
                           /\ SubSeq(ConditionsOf(ret[k]), 1, Len(ConditionsOf(existing[k])))
                                  = ConditionsOf(existing[k])
                           /\ InList(IgnoringConditions(existing[k]), new)
                      ELSE ret[k] = existing[k]
            /\ \E g \in [1..Len(NewPart) -> 1..Len(new)] :
                   /\ \A i, j \in 1..Len(NewPart) : i < j => g[i] < g[j]
                   /\ \A j \in 1..Len(NewPart) :
                          IgnoringConditions(NewPart[j]) = IgnoringConditions(new[g[j]])
                   /\ \A i \in 1..Len(new) :
                          (\A k \in 1..Len(existing) :
                               IgnoringConditions(existing[k]) # new[i])
                              => \E j \in 1..Len(NewPart) : g[j] = i

\* the second rule of the form is shared with the slot's first rule, the
\* slot's second rule is carried through, and the form's first rule comes last
C15_Witness ==
    /\ pc = "merge_return"
    /\ call.existing_mappings = <<WithConditions(FromText, <<PreCondition>>), FromEntityS1>>
    /\ call.new_mappings = <<NoType, FromText>>
    /\ Shared = {1}
    /\ ret[2] = FromEntityS1
    /\ Len(ret) = 3
    /\ IgnoringConditions(ret[3]) = NoType

-----------------------------------------------------------------------------
(* Error handling of a run (specification Spec) *)

\* C16: when the backup destination exists at the start of a run, as a file or
\* as a directory, the run is rejected with a RasaException and with no other
\* kind of error, and the filesystem stays as it was.
C16_BackupCollisionRejected ==
    (exists(fs0, backup_location) /\ pc # "start") =>
        /\ pc = "rejected"
        /\ err.kind = "RasaException"
        /\ fs = fs0

\* no input document declares a slots or a forms section
NoSectionDeclared == \A i \in 1..Len(InputDocuments) : VersionOnly(InputDocuments[i])

\* the failures of the filesystem, which are no rejections of the input
IOFailures ==
    {"out_mkdir", "backup_mkdir", "backup_read", "backup_write",
     "version_only_write", "final_write", "rollback_unlink"}

\* a file the run wrote for an input document is on disk
OutputLeft(file) == is_file(fs, WrittenTo(file)) /\ ~exists(fs0, WrittenTo(file))

\* C17: a run that passed the checks of the paths and whose input, a single
\* file or a directory, declares neither a slots nor a forms section does not
\* end in success: it is rejected with a RasaException and leaves no backup and
\* no output (runs that fail on the filesystem set aside).
C17_InputWithoutSectionsRejected ==
    (NoSectionDeclared /\ pc \in {"done", "aborted"} /\ err.why \notin IOFailures) =>
        /\ pc = "aborted"
        /\ err.kind = "RasaException"
        /\ ~exists(fs, backup_location)
        /\ \A i \in 1..Len(InputDocuments) : ~OutputLeft(InputDocuments[i])

-----------------------------------------------------------------------------
(* The tables of a directory run (specification Spec) *)

\* the sections under key of the recognized documents from position i on, put
\* together in the order of the documents
RECURSIVE SectionsFrom(_, _)
SectionsFrom(key, i) ==
    IF i > Len(RecognizedInputs) THEN <<>>
    ELSE OGet(Original(RecognizedInputs[i]), key, <<>>) \o SectionsFrom(key, i + 1)

Consolidated ==
    <<E("slots", SectionsFrom("slots", 1)), E("forms", SectionsFrom("forms", 1)),
      E("entities", SectionsFrom("entities", 1))>>

GlobalForms == _migrate_form_slots(Consolidated).new_forms

GlobalSlots ==
    _migrate_auto_fill_and_custom_slots(
        Consolidated, _migrate_form_slots(Consolidated).updated_slots)

\* C18: after a directory run that ends in success, every output document
\* whose original has a slots key holds under it the slot table computed from
\* the slots, forms and entities of all recognized documents together, and
\* every one whose original has a forms key holds the form table computed from
\* them.
C18_GlobalTablesInEveryDocument ==
    (pc = "done" /\ ~migrate_file_only) =>
        \A i \in 1..Len(RecognizedInputs) :
            LET file == RecognizedInputs[i]
                written == read_yaml_file(fs, OutputOf(file))
            IN  /\ is_file(fs, OutputOf(file))
                /\ HasSection(file, "slots") =>
                       OHas(written, "slots") /\ OGet(written, "slots", <<>>) = GlobalSlots
                /\ HasSection(file, "forms") =>
                       OHas(written, "forms") /\ OGet(written, "forms", <<>>) = GlobalForms

\* the document with the slots has no forms, the forms are in a later document,
\* and the slot s1 is written with the condition of form f1 and the rule that
\* the entities of its own document bring
C18_Witness ==
    /\ pc = "done"
    /\ ~migrate_file_only
    /\ Len(RecognizedInputs) = 2
    /\ HasSection(RecognizedInputs[1], "slots")
    /\ ~HasSection(RecognizedInputs[1], "forms")
    /\ HasSection(RecognizedInputs[2], "forms")
    /\ LET s1 == OGet(OGet(read_yaml_file(fs, OutputOf(RecognizedInputs[1])),
                           "slots", <<>>), "s1", <<>>)
       IN  s1.mappings = <<[type |-> "from_entity", entity |-> "s1",
                            conditions |-> <<[active_loop |-> "f1"]>>],
                           [type |-> "from_entity", entity |-> "s1"]>>

\* the files that were in the input location before the run: the input file,
\* or every file of the input directory
InputFiles ==
    IF migrate_file_only THEN {domain_path}
    ELSE {p \in DOMAIN fs0 : IsUnder(p, domain_path) /\ is_file(fs0, p)}

\* C19: in every state of every run, whatever the output path, every input
\* document is on disk with the content it had before the run.
C19_InputsUntouched ==
    \A p \in InputFiles : exists(fs, p) /\ fs[p] = fs0[p]

\* the documents the run wrote for its input documents
WrittenDocuments ==
    {read_yaml_file(fs, WrittenTo(InputDocuments[i])) :
        i \in {j \in 1..Len(InputDocuments) : is_file(fs, WrittenTo(InputDocuments[j]))}}

\* the names in the required slots of the forms of a written document
RequiredSlotsOf(doc) ==
    LET forms == OGet(doc, "forms", <<>>)
    IN  UNION {{forms[i].val.required_slots[k] :
                   k \in 1..Len(forms[i].val.required_slots)} : i \in 1..Len(forms)}

\* C20: in the documents written by a run that ends in success, every slot
\* name in the required slots of a form is a key of the slots section of some
\* written document.
C20_RequiredSlotsAreWritten ==
    pc = "done" =>
        \A doc \in WrittenDocuments :
            \A name \in RequiredSlotsOf(doc) :
                \E other \in WrittenDocuments : OHas(OGet(other, "slots", <<>>), name)

====
